---- MODULE Spec2Model ----
(***************************************************************************)
(* uma_automation.py as a state machine.                                   *)
(*                                                                         *)
(* The program is single-threaded: its state is the call stack (one frame  *)
(* per active function, the frame's pc being the source line it stands     *)
(* at), the screenshot files on disk, the whole-second clock that names    *)
(* them, the configuration and the process result.  Every function of the  *)
(* source is a table from source line to the statement at that line; one   *)
(* action per kind of statement executes the statement of the top frame.   *)
(***************************************************************************)
EXTENDS Integers, Sequences, FiniteSets, TLC

VARIABLES
    stack,        \* call stack, bottom first: main, run_automation_loop, ...
    files,        \* screenshot files on disk: [name, owner, uses]
    now,          \* int(time.time()), kept relative to the names still in use
    config,       \* config.json as loaded by load_config
    result,       \* "running", main's return value, or the uncaught exception
    interrupted,  \* a KeyboardInterrupt has been delivered
    loopExit,     \* source line at which run_automation_loop was left (0: not left)
    manualExit,   \* source line at which manual_choose_friend returned False (0: it has not)
    cv            \* the images and locals of a matching function run on its own

vars == <<stack, files, now, config, result, interrupted, loopExit, manualExit, cv>>

(***************************************************************************)
(* Bounds                                                                  *)
(***************************************************************************)
\* number of distinct screen positions a template can be matched at
MaxSites == 2

None == -1
NoCoords == <<>>

\* positions cv2.minMaxLoc can report (centre of the matched region)
MatchCoords == { <<100 * k, 900>> : k \in 1..MaxSites }

(***************************************************************************)
(* Configuration (config.json).  An absent key is <<>>, a present one      *)
(* <<value>>; strings are tuples of characters so that str.upper() is      *)
(* computed.                                                               *)
(***************************************************************************)
LowerCase == <<"a","b","c","d","e","f","g","h","i","j","k","l","m",
               "n","o","p","q","r","s","t","u","v","w","x","y","z">>
UpperCase == <<"A","B","C","D","E","F","G","H","I","J","K","L","M",
               "N","O","P","Q","R","S","T","U","V","W","X","Y","Z">>

UpperChar(c) ==
    IF \E k \in 1..Len(LowerCase) : LowerCase[k] = c
    THEN UpperCase[CHOOSE k \in 1..Len(LowerCase) : LowerCase[k] = c]
    ELSE c

\* str(...) without .upper()
upper_Missing(s) == s

upper(s) == [k \in 1..Len(s) |-> UpperChar(s[k])]

\* dict.get(key, default)
get(entry, default) == IF entry = <<>> THEN default ELSE entry[1]

rarity_keys == { <<"R">>, <<"S","R">>, <<"S","S","R">> }

rarity_coords(r) ==
    CASE r = <<"R">> -> <<102, 408>>
      [] r = <<"S","R">> -> <<437, 414>>
      [] r = <<"S","S","R">> -> <<777, 410>>

speciality_keys == { <<"S","P","E","E","D">>, <<"S","T","A","M","I","N","A">>,
                     <<"P","O","W","E","R">>, <<"G","U","T","S">>,
                     <<"W","I","T">>, <<"P","A","L">> }

speciality_coords(s) ==
    CASE s = <<"S","P","E","E","D">> -> <<102, 627>>
      [] s = <<"S","T","A","M","I","N","A">> -> <<444, 623>>
      [] s = <<"P","O","W","E","R">> -> <<786, 618>>
      [] s = <<"G","U","T","S">> -> <<109, 741>>
      [] s = <<"W","I","T">> -> <<442, 732>>
      [] s = <<"P","A","L">> -> <<777, 731>>

\* self.config.get("automation", {}).get("manual_choose", False)
manual_choose_enabled == get(config.manual_choose, FALSE)

rarity_choice == upper(get(config.rarity, <<"S","S","R">>))
speciality_choice == upper(get(config.speciality, <<"P","O","W","E","R">>))

\* the values the comments of run_automation_loop give for the keys it reads,
\* waits in tenths of a second
wait_time(key) ==
    CASE key = "career" -> 100
      [] key = "next" -> 10
      [] key = "start_career" -> 20
      [] key = "skip" -> 10
      [] key = "confirm" -> 50
      [] key = "loop" -> 50

attempts_next == 10
tap_after_skip == <<249, 948>>

\* the filter preferences a config.json may hold
RarityInputs == { <<>>, << <<"R">> >>, << <<"S","R">> >>, << <<"S","S","R">> >>,
                  << <<"s","s","r">> >>, << <<"U","R">> >> }
SpecialityInputs == { <<>>, << <<"S","P","E","E","D">> >>, << <<"S","T","A","M","I","N","A">> >>,
                      << <<"P","O","W","E","R">> >>, << <<"G","U","T","S">> >>,
                      << <<"W","I","T">> >>, << <<"P","A","L">> >>,
                      << <<"w","i","t">> >>, << <<"L","U","C","K">> >> }

(***************************************************************************)
(* Statements.  next is where control goes on, else the other branch.      *)
(***************************************************************************)
Args(template_name, max_attempts, wait_after, threshold) ==
    [template_name |-> template_name, max_attempts |-> max_attempts,
     wait_after |-> wait_after, threshold |-> threshold]
NoArgs == Args("", 0, 0, 0)

Call(proc, args, next, else) ==
    [op |-> "call", proc |-> proc, args |-> args, next |-> next, else |-> else]
CallFindAndTap(template_name, max_attempts, wait_after, next, else) ==
    Call("find_and_tap", Args(template_name, max_attempts, wait_after, 80), next, else)
CallFindAndTapMulti(template_name, max_attempts, wait_after, threshold, next, else) ==
    Call("find_and_tap_multi", Args(template_name, max_attempts, wait_after, threshold),
         next, else)
Shot(var, next) == [op |-> "take_screenshot", var |-> var, next |-> next]
\* into is the local the result is bound to, "" where the source only tests it
Match(template, var, into, next, else) ==
    [op |-> "find_template", template |-> template, var |-> var, into |-> into,
     next |-> next, else |-> else]
MatchMulti(template, var, into, next, else) ==
    [op |-> "find_template_multi", template |-> template, var |-> var, into |-> into,
     next |-> next, else |-> else]
UseButtons(var, into, next, else) ==
    [op |-> "find_use_buttons", var |-> var, into |-> into, next |-> next, else |-> else]
Tap(at, next) == [op |-> "tap_coordinate", at |-> at, next |-> next]
Wait(tenths, next) == [op |-> "wait", tenths |-> tenths, next |-> next]
If(cond, next, else) == [op |-> "if", cond |-> cond, next |-> next, else |-> else]
For(var, n, next, else) == [op |-> "for", var |-> var, n |-> n, next |-> next, else |-> else]
Finally(var, next) == [op |-> "finally", var |-> var, next |-> next]
Return(value, cleanup) == [op |-> "return", value |-> value, cleanup |-> cleanup]
Log(next) == [op |-> "log", next |-> next]
New(next) == [op |-> "new", next |-> next]

(***************************************************************************)
(* The functions of the source, statement by source line.                  *)
(***************************************************************************)
find_and_tap(self) ==
    LET a == self.args IN
    CASE self.pc = 155 -> For("attempt", a.max_attempts, 156, 175)
      [] self.pc = 156 -> Shot("screenshot_path", 159)
      [] self.pc = 159 -> Match(a.template_name, "screenshot_path", "coords", 161, 167)
      [] self.pc = 161 -> Tap(self.coords, 162)
      [] self.pc = 162 -> If(a.wait_after > 0, 163, 164)
      [] self.pc = 163 -> Wait(a.wait_after, 164)
      [] self.pc = 164 -> Return("True", {"screenshot_path"})
      [] self.pc = 167 -> If(self.attempt < a.max_attempts - 1, 168, 172)
      [] self.pc = 168 -> Wait(10, 172)
      [] self.pc = 172 -> Finally("screenshot_path", 155)
      [] self.pc = 175 -> Log(176)
      [] self.pc = 176 -> Return("False", {})

find_and_tap_multi(self) ==
    LET a == self.args IN
    CASE self.pc = 212 -> For("attempt", a.max_attempts, 213, 228)
      [] self.pc = 213 -> Shot("screenshot_path", 215)
      [] self.pc = 215 -> MatchMulti(a.template_name, "screenshot_path", "coords", 217, 223)
      [] self.pc = 217 -> Tap(self.coords, 218)
      [] self.pc = 218 -> If(a.wait_after > 0, 219, 220)
      [] self.pc = 219 -> Wait(a.wait_after, 220)
      [] self.pc = 220 -> Return("True", {"screenshot_path"})
      [] self.pc = 223 -> If(self.attempt < a.max_attempts - 1, 224, 226)
      [] self.pc = 224 -> Wait(10, 226)
      [] self.pc = 226 -> Finally("screenshot_path", 212)
      [] self.pc = 228 -> Log(229)
      [] self.pc = 229 -> Return("False", {})

run_filter_sequence(self) ==
    CASE self.pc = 235 -> Tap(<<747, 1623>>, 236)
      [] self.pc = 236 -> Wait(5, 238)
      [] self.pc = 238 -> Tap(<<786, 203>>, 239)
      [] self.pc = 239 -> Wait(5, 257)
      [] self.pc = 257 -> If(rarity_choice \notin rarity_keys, 259, 260)
      [] self.pc = 259 -> Return("False", {})
      [] self.pc = 260 -> If(speciality_choice \notin speciality_keys, 262, 263)
      [] self.pc = 262 -> Return("False", {})
      [] self.pc = 263 -> Tap(rarity_coords(rarity_choice), 264)
      [] self.pc = 264 -> Wait(2, 265)
      [] self.pc = 265 -> Tap(speciality_coords(speciality_choice), 266)
      [] self.pc = 266 -> Wait(2, 268)
      [] self.pc = 268 -> CallFindAndTap("ok.png", 10, 0, 271, 270)
      [] self.pc = 270 -> Return("False", {})
      [] self.pc = 271 -> Wait(5, 273)
      [] self.pc = 273 -> Return("True", {})

manual_choose_friend(self) ==
    CASE self.pc = 279 -> CallFindAndTapMulti("plus.png", 10, 10, 80, 283, 281)
      [] self.pc = 281 -> Return("False", {})
      [] self.pc = 283 -> CallFindAndTapMulti("following.png", 5, 2, 70, 285, 288)
      [] self.pc = 285 -> Return("True", {})
      [] self.pc = 288 -> Call("run_filter_sequence", NoArgs, 292, 290)
      [] self.pc = 290 -> Return("False", {})
      [] self.pc = 292 -> CallFindAndTapMulti("following.png", 5, 2, 70, 294, 297)
      [] self.pc = 294 -> Return("True", {})
      [] self.pc = 297 -> Return("False", {})

tp_charge(self) ==
    CASE self.pc = 367 -> CallFindAndTap("restore.png", 10, 0, 370, 369)
      [] self.pc = 369 -> Return("False", {})
      [] self.pc = 370 -> Wait(5, 374)
      [] self.pc = 374 -> Shot("screenshot_path", 376)
      [] self.pc = 376 -> UseButtons("screenshot_path", "coords", 384, 379)
      [] self.pc = 379 -> Return("False", {"screenshot_path"})
      [] self.pc = 384 -> Tap(self.coords, 387)
      [] self.pc = 387 -> Finally("screenshot_path", 389)
      [] self.pc = 389 -> Wait(5, 393)
      [] self.pc = 393 -> CallFindAndTap("max.png", 10, 0, 399, 395)
      [] self.pc = 395 -> Return("False", {})
      [] self.pc = 399 -> CallFindAndTap("ok.png", 10, 0, 402, 401)
      [] self.pc = 401 -> Return("False", {})
      [] self.pc = 402 -> Wait(15, 406)
      [] self.pc = 406 -> CallFindAndTap("close.png", 20, 0, 409, 408)
      [] self.pc = 408 -> Return("False", {})
      [] self.pc = 409 -> Wait(5, 412)
      [] self.pc = 412 -> Return("True", {})
      [] self.pc = 415 -> Log(416)
      [] self.pc = 416 -> Return("False", {})

run_automation_loop(self) ==
    CASE self.pc = 424 -> Log(428)
      [] self.pc = 428 -> CallFindAndTap("Career.png", 10, 0, 434, 424)
      [] self.pc = 434 -> Wait(wait_time("career"), 438)
      [] self.pc = 438 -> CallFindAndTap("next.png", attempts_next, wait_time("next"), 442, 424)
      [] self.pc = 442 -> Wait(5, 445)
      [] self.pc = 445 -> CallFindAndTap("next.png", attempts_next, wait_time("next"), 449, 424)
      [] self.pc = 449 -> Wait(5, 453)
      [] self.pc = 453 -> CallFindAndTap("auto_select_1.png", 10, 0, 456, 424)
      [] self.pc = 456 -> Wait(5, 457)
      [] self.pc = 457 -> CallFindAndTap("ok.png", 10, 0, 460, 424)
      [] self.pc = 460 -> Wait(5, 461)
      [] self.pc = 461 -> CallFindAndTap("next.png", 10, 0, 464, 424)
      [] self.pc = 464 -> Wait(20, 468)
      [] self.pc = 468 -> If(manual_choose_enabled, 470, 481)
      [] self.pc = 470 -> Call("manual_choose_friend", NoArgs, 481, 472)
      [] self.pc = 472 -> Return("None", {})
      \* local loop of steps 6 - 6.5
      [] self.pc = 481 -> CallFindAndTap("start_career_1.png", 10, 0, 485, 509)
      [] self.pc = 485 -> Wait(5, 489)
      [] self.pc = 489 -> Shot("screenshot_path", 491)
      [] self.pc = 491 -> Match("restore.png", "screenshot_path", "", 494, 503)
      [] self.pc = 494 -> Call("tp_charge", NoArgs, 497, 500)
      [] self.pc = 497 -> Finally("screenshot_path", 481)
      [] self.pc = 500 -> Finally("screenshot_path", 509)
      [] self.pc = 503 -> Finally("screenshot_path", 509)
      [] self.pc = 509 -> CallFindAndTap("start_career_1.png", 1, 0, 515, 424)
      [] self.pc = 515 -> CallFindAndTap("start_career_2.png", 10, 0, 521, 424)
      [] self.pc = 521 -> Wait(wait_time("start_career"), 525)
      [] self.pc = 525 -> CallFindAndTap("skip.png", 10, 0, 528, 424)
      [] self.pc = 528 -> Wait(5, 532)
      [] self.pc = 532 -> CallFindAndTap("skip_btn.png", 10, 0, 538, 424)
      [] self.pc = 538 -> Wait(wait_time("skip"), 540)
      [] self.pc = 540 -> Tap(tap_after_skip, 544)
      \* step 12
      [] self.pc = 544 -> Shot("screenshot_path", 546)
      [] self.pc = 546 -> Match("skip_off.png", "screenshot_path", "coords", 549, 584)
      [] self.pc = 549 -> Tap(self.coords, 550)
      [] self.pc = 550 -> Wait(2, 551)
      [] self.pc = 551 -> Tap(self.coords, 555)
      [] self.pc = 555 -> Wait(2, 556)
      [] self.pc = 556 -> Shot("screenshot_path_check", 559)
      [] self.pc = 559 -> Match("skip_off.png", "screenshot_path_check", "coords_off", 562, 567)
      [] self.pc = 562 -> Tap(self.coords_off, 563)
      [] self.pc = 563 -> Wait(2, 564)
      [] self.pc = 564 -> Tap(self.coords_off, 579)
      [] self.pc = 567 -> Match("skip_on_1.png", "screenshot_path_check", "coords_on1", 570, 573)
      [] self.pc = 570 -> Tap(self.coords_on1, 579)
      [] self.pc = 573 -> Match("skip_on_2.png", "screenshot_path_check", "", 579, 579)
      [] self.pc = 579 -> Finally("screenshot_path_check", 584)
      [] self.pc = 584 -> Finally("screenshot_path", 589)
      [] self.pc = 589 -> CallFindAndTap("confirm.png", 10, 0, 592, 424)
      [] self.pc = 592 -> Wait(10, 596)
      [] self.pc = 596 -> Wait(wait_time("confirm"), 600)
      \* step 14.5
      [] self.pc = 600 -> Shot("screenshot_path", 602)
      [] self.pc = 602 -> Match("next.png", "screenshot_path", "coords", 605, 611)
      [] self.pc = 605 -> For("i", 5, 606, 611)
      [] self.pc = 606 -> Tap(self.coords, 607)
      [] self.pc = 607 -> Wait(5, 605)
      [] self.pc = 611 -> Finally("screenshot_path", 616)
      [] self.pc = 616 -> CallFindAndTap("menu.png", 10, 0, 625, 424)
      \* loop between steps 14.5 and 16
      [] self.pc = 625 -> CallFindAndTap("give_up_1.png", 5, 0, 662, 629)
      [] self.pc = 629 -> Shot("screenshot_path", 631)
      [] self.pc = 631 -> Match("next.png", "screenshot_path", "coords", 634, 640)
      [] self.pc = 634 -> For("i", 5, 635, 640)
      [] self.pc = 635 -> Tap(self.coords, 636)
      [] self.pc = 636 -> Wait(5, 634)
      [] self.pc = 640 -> Finally("screenshot_path", 648)
      [] self.pc = 648 -> CallFindAndTap("menu.png", 10, 0, 625, 625)
      [] self.pc = 662 -> CallFindAndTap("give_up_2.png", 5, 0, 668, 424)
      [] self.pc = 668 -> Wait(wait_time("loop"), 424)
      \* except KeyboardInterrupt
      [] self.pc = 673 -> Log(674)
      [] self.pc = 674 -> Return("None", {})
      \* except Exception
      [] self.pc = 676 -> Log(678)
      [] self.pc = 678 -> Wait(100, 424)

main(self) ==
    CASE self.pc = 683 -> New(684)
      [] self.pc = 684 -> Call("run_automation_loop", NoArgs, 688, 688)
      [] self.pc = 686 -> Log(687)
      [] self.pc = 687 -> Return("1", {})
      [] self.pc = 688 -> Return("0", {})

\* the source of the function a frame executes
Code(self) ==
    CASE self.proc = "main" -> main(self)
      [] self.proc = "run_automation_loop" -> run_automation_loop(self)
      [] self.proc = "manual_choose_friend" -> manual_choose_friend(self)
      [] self.proc = "run_filter_sequence" -> run_filter_sequence(self)
      [] self.proc = "tp_charge" -> tp_charge(self)
      [] self.proc = "find_and_tap" -> find_and_tap(self)
      [] self.proc = "find_and_tap_multi" -> find_and_tap_multi(self)

(***************************************************************************)
(* Faulty variants of single statements, against which the properties are  *)
(* tried: each must break the property that speaks about that statement.   *)
(***************************************************************************)
\* find_and_tap that also waits after its last attempt
Instr_WaitAfterLastAttempt(self) ==
    IF self.proc = "find_and_tap" /\ self.pc = 167 THEN If(TRUE, 168, 172)
    ELSE Code(self)

\* a failed Career.png search that goes on with step 2
Instr_CareerFailureIgnored(self) ==
    IF self.proc = "run_automation_loop" /\ self.pc = 428
    THEN CallFindAndTap("Career.png", 10, 0, 434, 434)
    ELSE Code(self)

\* a failed Career.png search that breaks out of the loop
Instr_CareerFailureBreaks(self) ==
    IF self.proc = "run_automation_loop" /\ self.pc = 428
    THEN CallFindAndTap("Career.png", 10, 0, 434, 472)
    ELSE Code(self)

\* step 12 matching its second skip_off.png against the first frame
Instr_CheckOnOuterFrame(self) ==
    IF self.proc = "run_automation_loop" /\ self.pc = 559
    THEN Match("skip_off.png", "screenshot_path", "coords_off", 562, 567)
    ELSE Code(self)

\* find_and_tap returning True without passing through its finally clause
Instr_ReturnSkipsFinally(self) ==
    IF self.proc = "find_and_tap" /\ self.pc = 164 THEN Return("True", {})
    ELSE Code(self)

\* a failed tp_charge that restarts the cycle
Instr_TpFailureRestarts(self) ==
    IF self.proc = "run_automation_loop" /\ self.pc = 494
    THEN Call("tp_charge", NoArgs, 497, 424)
    ELSE Code(self)

\* a successful tp_charge that breaks out of the local loop instead of continuing
Instr_TpSuccessBreaks(self) ==
    IF self.proc = "run_automation_loop" /\ self.pc = 497
    THEN Finally("screenshot_path", 509)
    ELSE Code(self)

\* step 12 tapping skip_off.png once instead of twice
Instr_SingleTapOnSkipOff(self) ==
    IF self.proc = "run_automation_loop" /\ self.pc = 549
    THEN Tap(self.coords, 555)
    ELSE Code(self)

\* find_and_tap taking a tap that was not delivered for a template not found
Instr_FailedTapRetries(self) ==
    IF self.proc = "find_and_tap" /\ self.pc = 162 /\ self.delivery # "delivered"
    THEN If(FALSE, 162, 167)
    ELSE Code(self)

\* manual_choose_friend running the filter sequence whether or not
\* following.png was found
Instr_FilterAlways(self) ==
    IF self.proc = "manual_choose_friend" /\ self.pc = 283
    THEN CallFindAndTapMulti("following.png", 5, 2, 70, 288, 288)
    ELSE Code(self)

\* tp_charge going on with ok.png when max.png was not found
Instr_TpMaxFailureIgnored(self) ==
    IF self.proc = "tp_charge" /\ self.pc = 393
    THEN CallFindAndTap("max.png", 10, 0, 399, 399)
    ELSE Code(self)

\* a failed menu.png search of step 15 that searches menu.png again
Instr_MenuFailureRetries(self) ==
    IF self.proc = "run_automation_loop" /\ self.pc = 616
    THEN CallFindAndTap("menu.png", 10, 0, 625, 616)
    ELSE Code(self)

\* a failed give_up_1.png search that goes on with give_up_2.png
Instr_GiveUp1FailureIgnored(self) ==
    IF self.proc = "run_automation_loop" /\ self.pc = 625
    THEN CallFindAndTap("give_up_1.png", 5, 0, 662, 662)
    ELSE Code(self)

\* find_and_tap going on with its next attempt after a tap
Instr_SearchesOnAfterTap(self) ==
    IF self.proc = "find_and_tap" /\ self.pc = 164
    THEN Finally("screenshot_path", 155)
    ELSE Code(self)

\* (end of the faulty variants of statements)
\* the statement a frame stands at
Instr(self) == Code(self)

\* first statement of a function
Entry(proc) ==
    CASE proc = "main" -> 683
      [] proc = "run_automation_loop" -> 424
      [] proc = "manual_choose_friend" -> 279
      [] proc = "run_filter_sequence" -> 235
      [] proc = "tp_charge" -> 367
      [] proc = "find_and_tap" -> 155
      [] proc = "find_and_tap_multi" -> 212

(***************************************************************************)
(* Frames, files and the clock.                                            *)
(***************************************************************************)
\* a frame at the entry of proc: no local is bound yet
Frame(proc, args) ==
    [proc |-> proc, pc |-> Entry(proc), args |-> args,
     attempt |-> -1, i |-> -1,
     screenshot_path |-> None, screenshot_path_check |-> None,
     coords |-> NoCoords, coords_off |-> NoCoords,
     coords_on1 |-> NoCoords,
     \* what this call has done so far (kept for the calls that end);
     \* run_automation_loop keeps the taps since its last capture
     taps |-> <<>>, nShot |-> 0, nWait |-> 0, waited |-> 0,
     \* the line this frame stood at before the current one (0: none)
     from |-> 0,
     \* what became of the tap of this find_and_tap call
     delivery |-> "none",
     \* the steps this call has carried out, in order: the templates its
     \* find_and_tap calls tapped and "tap" for a tap of its own;
     \* run_automation_loop keeps the phases of the current cycle
     done |-> <<>>]

\* the two functions that never return by themselves keep no history
Counted(self) == self.proc \notin {"main", "run_automation_loop"}

Retrying == {"find_and_tap", "find_and_tap_multi"}

PathVars == {"screenshot_path", "screenshot_path_check"}

Top == stack[Len(stack)]
Below == SubSeq(stack, 1, Len(stack) - 1)
Running == result = "running" /\ stack # <<>>

\* os.path.exists(path)
exists(fl, path) == \E r \in fl : r.name = path

\* if os.path.exists(path): os.remove(path), for each path of paths
remove(fl, paths) == { r \in fl : r.name \notin paths }

\* open(filename, 'wb').write(...): creates the file or replaces its content
write(fl, path, owner) ==
    remove(fl, {path}) \cup { [name |-> path, owner |-> owner, uses |-> 0] }

\* cv2.imread(screenshot_path) for one matching pass
read(fl, path, passes) ==
    { IF r.name = path THEN [r EXCEPT !.uses = @ + passes] ELSE r : r \in fl }

\* screenshot_<int(time.time())>.png: only equality of names matters, so the
\* seconds are kept as their rank among the seconds still referred to
Names(st, fl, nw) ==
    ({nw} \cup { r.name : r \in fl }
          \cup { st[k][v] : k \in 1..Len(st), v \in PathVars }) \ {None}

Rank(S, t) == IF t = None THEN None ELSE Cardinality({ u \in S : u < t })

Commit(st, fl, nw) ==
    LET S == Names(st, fl, nw) IN
    /\ stack' = [k \in 1..Len(st) |->
                   [st[k] EXCEPT !.screenshot_path = Rank(S, @),
                                 !.screenshot_path_check = Rank(S, @),
                                 !.from = IF k = 2 /\ Len(stack) >= 2
                                             /\ stack[2].pc # st[2].pc
                                          THEN stack[2].pc ELSE @,
                                 !.done = IF k = 2 /\ st[2].pc = 424 THEN <<>> ELSE @]]
    /\ files' = { [r EXCEPT !.name = Rank(S, @)] : r \in fl }
    /\ now' = Rank(S, nw)

\* the top frame replaced
Step(self) == Append(Below, self)

\* local := value
Bind(self, local, value) ==
    IF local = "" THEN self ELSE [self EXCEPT ![local] = value]

\* locals that are dead once a try block is left
Forget(self) ==
    [self EXCEPT !.coords = NoCoords, !.coords_off = NoCoords,
                 !.coords_on1 = NoCoords, !.i = -1]

\* run_automation_loop keeps its taps up to the end of the try block of var
Peeked(self, var) ==
    [self EXCEPT !.taps = IF Counted(self) \/ var # "screenshot_path" THEN @ ELSE <<>>]

(***************************************************************************)
(* try / finally / except                                                  *)
(***************************************************************************)
\* the variables whose finally clause encloses the statement at pc
FinallyVars(proc, pc) ==
    CASE proc = "find_and_tap" /\ pc \in 159..172 -> {"screenshot_path"}
      [] proc = "find_and_tap_multi" /\ pc \in 215..226 -> {"screenshot_path"}
      [] proc = "tp_charge" /\ pc \in 376..387 -> {"screenshot_path"}
      [] proc = "run_automation_loop" /\ pc \in 491..503 -> {"screenshot_path"}
      [] proc = "run_automation_loop" /\ pc \in 546..556 -> {"screenshot_path"}
      [] proc = "run_automation_loop" /\ pc \in 559..579 ->
             {"screenshot_path_check", "screenshot_path"}
      [] proc = "run_automation_loop" /\ pc = 584 -> {"screenshot_path"}
      [] proc = "run_automation_loop" /\ pc \in 602..611 -> {"screenshot_path"}
      [] proc = "run_automation_loop" /\ pc \in 631..640 -> {"screenshot_path"}
      [] OTHER -> {}

\* tp_charge without its except clause
Handler_NoExceptInTpCharge(proc, pc, exc) ==
    CASE proc = "run_automation_loop" /\ pc \in 424..670 /\ exc = "KeyboardInterrupt" -> 673
      [] proc = "run_automation_loop" /\ pc \in 424..670 /\ exc = "Exception" -> 676
      [] proc = "main" /\ pc \in 683..684 /\ exc = "Exception" -> 686
      [] OTHER -> 0

\* the except clause that catches exc raised at pc (0: none)
Handler(proc, pc, exc) ==
    CASE proc = "tp_charge" /\ pc \in 367..412 /\ exc = "Exception" -> 415
      [] proc = "run_automation_loop" /\ pc \in 424..670 /\ exc = "KeyboardInterrupt" -> 673
      [] proc = "run_automation_loop" /\ pc \in 424..670 /\ exc = "Exception" -> 676
      [] proc = "main" /\ pc \in 683..684 /\ exc = "Exception" -> 686
      [] OTHER -> 0

\* exc raised by the statement of the top frame of st: finally clauses run
\* innermost first, frames are left until an except clause catches
RECURSIVE Unwind(_, _, _)
Unwind(st, fl, exc) ==
    IF st = <<>> THEN [stack |-> <<>>, files |-> fl]
    ELSE LET self == st[Len(st)]
             rest == SubSeq(st, 1, Len(st) - 1)
             vs == FinallyVars(self.proc, self.pc)
             fl2 == remove(fl, { self[v] : v \in vs })
             h == Handler(self.proc, self.pc, exc)
         IN  IF h # 0
             THEN [stack |-> Append(rest,
                       [Peeked(Forget(self), "screenshot_path") EXCEPT !.pc = h,
                                            !.screenshot_path = None,
                                            !.screenshot_path_check = None]),
                   files |-> fl2]
             ELSE Unwind(rest, fl2, exc)

\* line at which run_automation_loop is left by a step from st to st2
LeftAt(st, st2) ==
    IF Len(st) >= 2 /\ Len(st2) < 2 THEN st[2].pc ELSE loopExit

Raise(exc) ==
    LET u == Unwind(stack, files, exc) IN
    /\ Commit(u.stack, u.files, now)
    /\ result' = IF u.stack = <<>> THEN exc ELSE result
    /\ loopExit' = LeftAt(stack, u.stack)

(***************************************************************************)
(* Actions: one per kind of statement, executed by the top frame.          *)
(***************************************************************************)
Same == UNCHANGED <<config, result, interrupted, loopExit, manualExit, cv>>

\* a step of the top frame that touches neither files nor clock
Go(self) == Commit(Step(self), files, now) /\ Same

\* for var in range(n)
ForStmt ==
    /\ Running /\ Instr(Top).op = "for"
    /\ LET ins == Instr(Top)
           k == Top[ins.var] + 1
       IN  Go(IF k < ins.n
              THEN [Top EXCEPT ![ins.var] = k, !.pc = ins.next]
              ELSE [Top EXCEPT ![ins.var] = -1, !.pc = ins.else])

IfStmt ==
    /\ Running /\ Instr(Top).op = "if"
    /\ LET ins == Instr(Top) IN
       Go([Top EXCEPT !.pc = IF ins.cond THEN ins.next ELSE ins.else])

LogStmt ==
    /\ Running /\ Instr(Top).op = "log"
    /\ Go([Top EXCEPT !.pc = Instr(Top).next])

\* take_screenshot: the file named after the current second is written
take_screenshot ==
    /\ Running /\ Instr(Top).op = "take_screenshot"
    /\ LET ins == Instr(Top)
           self == [Top EXCEPT ![ins.var] = now, !.pc = ins.next,
                               !.nShot = IF Counted(Top) THEN @ + 1 ELSE @,
                               !.taps = Peeked(Top, ins.var).taps]
       IN  Commit(Step(self), write(files, now, <<Top.proc, ins.var>>), now)
    /\ Same

\* take_screenshot: screencap returns non-zero (RuntimeError) or times out
take_screenshot_fails ==
    /\ Running /\ Instr(Top).op = "take_screenshot"
    /\ Raise("Exception")
    /\ UNCHANGED <<config, interrupted, manualExit, cv>>

\* find_template: the centre of the best match, or None
find_template ==
    /\ Running /\ Instr(Top).op = "find_template"
    /\ LET ins == Instr(Top)
           path == Top[ins.var]
       IN  \E c \in MatchCoords \cup {NoCoords} :
             /\ c # NoCoords => exists(files, path)
             /\ Commit(Step(Bind([Top EXCEPT !.pc = IF c # NoCoords THEN ins.next
                                                      ELSE ins.else], ins.into, c)),
                       read(files, path, 1), now)
    /\ Same

\* find_template_multi: the primary directory, then assets/image
find_template_multi ==
    /\ Running /\ Instr(Top).op = "find_template_multi"
    /\ LET ins == Instr(Top)
           path == Top[ins.var]
       IN  \E c \in MatchCoords \cup {NoCoords}, passes \in 1..2 :
             /\ c # NoCoords => exists(files, path)
             /\ Commit(Step([Top EXCEPT ![ins.into] = c,
                                        !.pc = IF c # NoCoords THEN ins.next ELSE ins.else]),
                       read(files, path, passes), now)
    /\ Same

\* find_use_buttons_with_brightness_filter: use_coords[0], or the empty list
find_use_buttons_with_brightness_filter ==
    /\ Running /\ Instr(Top).op = "find_use_buttons"
    /\ LET ins == Instr(Top)
           path == Top[ins.var]
       IN  \E c \in MatchCoords \cup {NoCoords} :
             /\ c # NoCoords => exists(files, path)
             /\ Commit(Step([Top EXCEPT ![ins.into] = c,
                                        !.pc = IF c # NoCoords THEN ins.next ELSE ins.else]),
                       read(files, path, 1), now)
    /\ Same

\* tap_coordinate: the tap is delivered, rejected by the device (non-zero
\* return code, logged) or times out (TimeoutExpired, caught and logged)
tap_coordinate ==
    /\ Running /\ Instr(Top).op = "tap_coordinate"
    /\ LET ins == Instr(Top) IN
       \E d \in {"delivered", "rejected", "timeout"} :
          Go([Top EXCEPT !.pc = ins.next,
                         !.taps = Append(@, ins.at),
                         !.done = IF Counted(Top) /\ Top.proc \notin Retrying
                                  THEN Append(@, "tap") ELSE @,
                         !.delivery = IF Top.proc \in Retrying THEN d ELSE @])

\* tap_coordinate: subprocess.run raises (adb gone: FileNotFoundError)
tap_coordinate_raises ==
    /\ Running /\ Instr(Top).op = "tap_coordinate"
    /\ Raise("Exception")
    /\ UNCHANGED <<config, interrupted, manualExit, cv>>

\* wait / time.sleep: a second or more moves the clock to a later second
wait ==
    /\ Running /\ Instr(Top).op = "wait"
    /\ LET ins == Instr(Top)
           self == [Top EXCEPT !.pc = ins.next,
                               !.nWait = IF Counted(Top) THEN @ + 1 ELSE @,
                               !.waited = IF Counted(Top) THEN @ + ins.tenths ELSE @]
       IN  Commit(Step(self), files, IF ins.tenths >= 10 THEN now + 1 ELSE now)
    /\ Same

\* finally: if os.path.exists(path): os.remove(path)
FinallyStmt ==
    /\ Running /\ Instr(Top).op = "finally"
    /\ LET ins == Instr(Top)
           self == [Peeked(Forget(Top), ins.var) EXCEPT ![ins.var] = None, !.pc = ins.next]
       IN  Commit(Step(self), remove(files, {Top[ins.var]}), now)
    /\ Same

CallStmt ==
    /\ Running /\ Instr(Top).op = "call"
    /\ LET ins == Instr(Top) IN
       Commit(Append(stack, Frame(ins.proc, ins.args)), files, now)
    /\ Same

\* the steps of caller once its find_and_tap of template_name has tapped; a
\* phase that a nested loop of run_automation_loop repeats is entered once
Phase(caller, template_name) ==
    IF /\ caller.proc = "run_automation_loop" /\ caller.pc \in {481, 509, 648}
       /\ caller.done # <<>> /\ caller.done[Len(caller.done)] = template_name
    THEN caller.done
    ELSE Append(caller.done, template_name)

\* return (and break out of run_automation_loop), through the finally
\* clauses it leaves; the caller goes on by the value returned
ReturnStmt ==
    /\ Running /\ Instr(Top).op = "return"
    /\ LET ins == Instr(Top)
           fl == remove(files, { Top[v] : v \in ins.cleanup })
           st == IF Len(stack) = 1 THEN <<>>
                 ELSE LET caller == stack[Len(stack) - 1]
                          at == Instr(caller)
                      IN  Append(SubSeq(stack, 1, Len(stack) - 2),
                                 [caller EXCEPT !.pc = IF ins.value = "False"
                                                       THEN at.else ELSE at.next,
                                                !.done = IF Top.proc \in Retrying
                                                            /\ ins.value = "True"
                                                         THEN Phase(caller, Top.args.template_name)
                                                         ELSE @])
       IN  /\ Commit(st, fl, now)
           /\ result' = IF Len(stack) = 1 THEN ins.value ELSE result
           /\ loopExit' = LeftAt(stack, st)
           /\ manualExit' = IF Top.proc = "manual_choose_friend" /\ ins.value = "False"
                            THEN Top.pc ELSE manualExit
    /\ UNCHANGED <<config, interrupted, cv>>

\* what UmaAutomation() met, kept when the start of the process is observed
started(outcome) ==
    IF cv.fn = "startup" THEN [cv EXCEPT !.outcome = outcome] ELSE cv

\* UmaAutomation(): load_config, makedirs, test_adb_connection; the output of
\* adb connect holds "connected" (info) or does not (warning); both return
construct ==
    /\ Running /\ Instr(Top).op = "new"
    /\ \E outcome \in {"connected", "unreachable"} :
          /\ Commit(Step([Top EXCEPT !.pc = Instr(Top).next]), files, now)
          /\ cv' = started(outcome)
    /\ UNCHANGED <<config, result, interrupted, loopExit, manualExit>>

\* UmaAutomation(): config.json missing (FileNotFoundError) or not JSON
\* (JSONDecodeError), adb not installed (FileNotFoundError) or adb connect
\* timing out (TimeoutExpired): logged and raised again
construct_raises ==
    /\ Running /\ Instr(Top).op = "new"
    /\ \E outcome \in {"config missing", "config invalid", "adb missing", "adb timeout"} :
          /\ Raise("Exception")
          /\ cv' = started(outcome)
    /\ UNCHANGED <<config, interrupted, manualExit>>

\* Ctrl-C while run_automation_loop is on the stack
KeyboardInterrupt ==
    /\ Running /\ Len(stack) >= 2 /\ ~interrupted
    /\ Raise("KeyboardInterrupt")
    /\ interrupted' = TRUE
    /\ UNCHANGED <<config, manualExit, cv>>

\* the wall clock reaches the next second
Tick ==
    /\ Running
    /\ Commit(stack, files, now + 1)
    /\ Same

(***************************************************************************)
(* Specification                                                           *)
(***************************************************************************)
\* config.json files: manual selection absent, on or off, the filter keys absent
\* (defaults) or unknown values
Configs ==
    [manual_choose : { <<>>, <<TRUE>>, <<FALSE>> },
     rarity : { <<>>, << <<"U","R">> >> },
     speciality : { <<>>, << <<"L","U","C","K">> >> }]

\* config.json files with manual selection on: every rarity with the
\* speciality absent or in lower case, every speciality with the rarity absent
\* or in lower case
FilterConfigs ==
    { c \in [manual_choose : { <<TRUE>> }, rarity : RarityInputs, speciality : SpecialityInputs] :
        \/ c.rarity \in { <<>>, << <<"s","s","r">> >> }
        \/ c.speciality \in { <<>>, << <<"w","i","t">> >> } }

Start ==
    /\ stack = << Frame("main", NoArgs) >>
    /\ files = {}
    /\ now = 0
    /\ result = "running"
    /\ interrupted = FALSE
    /\ loopExit = 0
    /\ manualExit = 0

\* no matching function is run on its own
Idle == [fn |-> "none"]

Init == Start /\ config \in Configs /\ cv = Idle

InitFilter == Start /\ config \in FilterConfigs /\ cv = Idle

\* the program with the outcome of its start observed
InitStartup ==
    /\ Start
    /\ config \in { c \in Configs : c.rarity = <<>> /\ c.speciality = <<>> }
    /\ cv = [fn |-> "startup", outcome |-> "none"]

Next ==
    \/ ForStmt
    \/ IfStmt
    \/ LogStmt
    \/ take_screenshot
    \/ take_screenshot_fails
    \/ find_template
    \/ find_template_multi
    \/ find_use_buttons_with_brightness_filter
    \/ tap_coordinate
    \/ tap_coordinate_raises
    \/ wait
    \/ FinallyStmt
    \/ CallStmt
    \/ ReturnStmt
    \/ construct
    \/ construct_raises
    \/ KeyboardInterrupt
    \/ Tick

Spec == Init /\ [][Next]_vars

SpecStartup == InitStartup /\ [][Next]_vars

\* the same program, started with every filter preference
SpecFilter == InitFilter /\ [][Next]_vars

(***************************************************************************)
(* find_template and find_template_multi on the content of the images.     *)
(* The template file of a directory is missing, undecodable (cv2.imread    *)
(* gives None), makes cv2 raise, or is matched by cv2.matchTemplate with   *)
(* best score max_val (hundredths) at max_loc.  The caller runs the        *)
(* function on the same screenshot and directories with each threshold.    *)
(***************************************************************************)
\* number of extra directories
MaxDirs == 2

Scores == {65, 70, 80}
Thresholds == {70, 80}
Locs == { <<10, 20>>, <<300, 400>> }
\* template_gray.shape, (h, w)
Shapes == { <<21, 41>> }

Templates ==
    { [file |-> f, max_val |-> 0, max_loc |-> <<0, 0>>, shape |-> <<0, 0>>] :
        f \in {"missing", "undecodable", "raises"} }
    \cup [file : {"ok"}, max_val : Scores, max_loc : Locs, shape : Shapes]

\* templates[1] is the file in self.template_path, the others those in extra_dirs
Stores(fn) ==
    UNION { [1..n -> Templates] :
              n \in 1..(IF fn = "find_template" THEN 1 ELSE 1 + MaxDirs) }

\* center_x = max_loc[0] + w // 2, center_y = max_loc[1] + h // 2
center(template) ==
    << template.max_loc[1] + template.shape[2] \div 2,
       template.max_loc[2] + template.shape[1] \div 2 >>

\* find_template with an inverted comparison
template_match_Inverted(template, screenshot, threshold) ==
    IF template.file = "ok" /\ screenshot /\ template.max_val <= threshold
    THEN center(template) ELSE NoCoords

\* find_template returning the top-left corner of the match
template_match_TopLeft(template, screenshot, threshold) ==
    IF template.file = "ok" /\ screenshot /\ template.max_val >= threshold
    THEN template.max_loc ELSE NoCoords

\* find_template: None when the template file is missing, an image cannot be
\* read or cv2 raises; the centre of the best match when max_val >= threshold
template_match(template, screenshot, threshold) ==
    IF template.file = "missing" THEN NoCoords
    ELSE IF ~screenshot \/ template.file = "undecodable" THEN NoCoords
    ELSE IF template.file = "raises" THEN NoCoords
    ELSE IF template.max_val >= threshold THEN center(template)
    ELSE NoCoords

\* cv2.imread(template_file) is reached
imread(self, k) ==
    IF self.templates[k].file = "missing" THEN self.reads ELSE Append(self.reads, k)

\* the loop over extra_dirs going on after a match, the last match returned
for_directory_KeepsSearching(self) ==
    IF self.directory = Len(self.templates) - 1
    THEN [self EXCEPT !.pc = IF self.coords = NoCoords THEN 208 ELSE 204]
    ELSE LET k == self.directory + 2
             t == self.templates[k]
             c == IF t.file = "ok" /\ self.screenshot /\ t.max_val >= self.threshold
                  THEN center(t) ELSE self.coords
         IN  [self EXCEPT !.directory = @ + 1, !.reads = imread(self, k), !.coords = c]

\* for directory in extra_dirs: the next directory, or the end of the loop
for_directory(self) ==
    IF self.directory = Len(self.templates) - 1 THEN [self EXCEPT !.pc = 208]
    ELSE LET k == self.directory + 2
             t == self.templates[k]
             next == [self EXCEPT !.directory = @ + 1, !.reads = imread(self, k)]
         IN  IF t.file = "missing" THEN next
             ELSE IF ~self.screenshot \/ t.file = "undecodable" THEN next
             ELSE IF t.file = "raises" THEN next
             ELSE IF t.max_val >= self.threshold
                  THEN [next EXCEPT !.coords = center(t), !.pc = 204]
             ELSE next

Matching == cv.fn \in {"find_template", "find_template_multi"}

Apart == UNCHANGED <<stack, files, now, config, result, interrupted, loopExit, manualExit>>

\* the caller's call with one of the thresholds
match_call ==
    /\ Matching /\ cv.pc = 0
    /\ \E t \in cv.todo :
          cv' = [cv EXCEPT !.threshold = t, !.todo = @ \ {t}, !.reads = <<>>,
                           !.coords = NoCoords, !.directory = 0,
                           !.pc = IF cv.fn = "find_template" THEN 93 ELSE 183]
    /\ Apart

\* find_template called by itself
find_template_alone ==
    /\ Matching /\ cv.pc = 93
    /\ cv' = [cv EXCEPT !.coords = template_match(cv.templates[1], cv.screenshot,
                                                  cv.threshold),
                        !.reads = imread(cv, 1), !.pc = 129]
    /\ Apart

\* coords = self.find_template(...); if coords: return coords
find_template_multi_primary ==
    /\ Matching /\ cv.pc = 183
    /\ LET c == template_match(cv.templates[1], cv.screenshot, cv.threshold) IN
       cv' = [cv EXCEPT !.coords = c, !.reads = imread(cv, 1),
                        !.pc = IF c # NoCoords THEN 185 ELSE 187]
    /\ Apart

find_template_multi_for ==
    /\ Matching /\ cv.pc = 187
    /\ cv' = for_directory(cv)
    /\ Apart

\* return coords / return None
match_return ==
    /\ Matching /\ cv.pc \in {129, 185, 204, 208}
    /\ cv' = [cv EXCEPT !.pc = 0,
                        !.returned = @ \cup {[threshold |-> cv.threshold,
                                              coords |-> cv.coords,
                                              reads |-> cv.reads]}]
    /\ Apart

InitMatch ==
    /\ stack = <<>> /\ files = {} /\ now = 0 /\ result = "matching"
    /\ interrupted = FALSE /\ loopExit = 0 /\ manualExit = 0
    /\ config \in { c \in Configs : c.manual_choose = <<>> /\ c.rarity = <<>> /\ c.speciality = <<>> }
    /\ \E fn \in {"find_template", "find_template_multi"} :
       \E ts \in Stores(fn), s \in BOOLEAN :
          cv = [fn |-> fn, templates |-> ts, screenshot |-> s, todo |-> Thresholds,
                threshold |-> 0, pc |-> 0, directory |-> 0, coords |-> NoCoords,
                reads |-> <<>>, returned |-> {}]

NextMatch ==
    \/ match_call
    \/ find_template_alone
    \/ find_template_multi_primary
    \/ find_template_multi_for
    \/ match_return

SpecMatch == InitMatch /\ [][NextMatch]_vars

(***************************************************************************)
(* find_use_buttons_with_brightness_filter on the content of the images:   *)
(* the score of use.png at each place of the match matrix and the grey     *)
(* value of the screenshot at the centre of the template placed there.     *)
(***************************************************************************)
\* places of the match matrix, in the row-major order np.where lists them
Places == << <<0, 0>>, <<30, 0>>, <<50, 0>>, <<0, 40>>, <<30, 40>>, <<50, 40>> >>
UseScores == {79, 80}
Brightness == {170, 171}
\* values of brightness_threshold the function is called with; 170 is the default
BrightnessThresholds == {169, 170}

\* (center_x, center_y) of use.png placed at match
use_center(match, shape) == << match[1] + shape[2] \div 2, match[2] + shape[1] \div 2 >>

\* np.sqrt((center_x - existing_coord[0])**2 + (center_y - existing_coord[1])**2) < 50
distance_lt_50(a, b) ==
    (a[1] - b[1]) * (a[1] - b[1]) + (a[2] - b[2]) * (a[2] - b[2]) < 50 * 50

\* the brightness test passing a centre at exactly the threshold
is_bright_AtThreshold(brightness, brightness_threshold) ==
    brightness >= brightness_threshold

\* if brightness > brightness_threshold
is_bright(brightness, brightness_threshold) == brightness > brightness_threshold

\* the distance test taking a coordinate at exactly 50 for a duplicate
is_unique_AtMost50(c, unique_coords) ==
    \A k \in 1..Len(unique_coords) :
        (c[1] - unique_coords[k][1]) * (c[1] - unique_coords[k][1])
          + (c[2] - unique_coords[k][2]) * (c[2] - unique_coords[k][2]) > 50 * 50

\* a coordinate compared with the last kept one only
is_unique_LastOnly(c, unique_coords) ==
    unique_coords = <<>> \/ ~distance_lt_50(c, unique_coords[Len(unique_coords)])

\* is_unique: no kept coordinate is closer than 50
is_unique(c, unique_coords) ==
    \A k \in 1..Len(unique_coords) : ~distance_lt_50(c, unique_coords[k])

UseButtonsRun == cv.fn = "find_use_buttons_with_brightness_filter"

\* the caller's call with one of the brightness thresholds
use_buttons_call ==
    /\ UseButtonsRun /\ cv.pc = 0
    /\ \E b \in cv.todo :
          cv' = [cv EXCEPT !.brightness_threshold = b, !.todo = @ \ {b}, !.pc = 301,
                           !.matches = <<>>, !.unique_coords = <<>>]
    /\ Apart

\* imread, cvtColor, matchTemplate, np.where(result >= 0.8): the matches in
\* scan order; [] when use.png or the screenshot cannot be read
use_buttons_where ==
    /\ UseButtonsRun /\ cv.pc = 301
    /\ cv' = IF cv.readable
             THEN [cv EXCEPT !.pc = 330,
                             !.matches = SelectSeq(Places,
                                            LAMBDA p : cv.result[p] >= cv.threshold)]
             ELSE [cv EXCEPT !.pc = 358]
    /\ Apart

\* for match in matches: the brightness test, then the distance test
use_buttons_for ==
    /\ UseButtonsRun /\ cv.pc = 330
    /\ IF cv.matches = <<>> THEN cv' = [cv EXCEPT !.pc = 354]
       ELSE LET match == Head(cv.matches)
                c == use_center(match, cv.shape)
                inside == c[2] < cv.screen[1] /\ c[1] < cv.screen[2]
            IN  cv' = [cv EXCEPT
                         !.matches = Tail(@),
                         !.unique_coords =
                            IF inside /\ is_bright(cv.gray[match], cv.brightness_threshold)
                                      /\ is_unique(c, @)
                            THEN Append(@, c) ELSE @]
    /\ Apart

\* return unique_coords / return []
use_buttons_return ==
    /\ UseButtonsRun /\ cv.pc \in {354, 358}
    /\ cv' = [cv EXCEPT !.pc = 0,
                        \* returned: the list of the call with the default threshold
                        !.returned = IF cv.brightness_threshold = 170
                                     THEN << cv.unique_coords >> ELSE @,
                        !.returned_at = @ \cup {[brightness_threshold |-> cv.brightness_threshold,
                                                 coords |-> cv.unique_coords]}]
    /\ Apart

PlaceSet == { Places[k] : k \in 1..Len(Places) }

InitUseButtons ==
    /\ stack = <<>> /\ files = {} /\ now = 0 /\ result = "matching"
    /\ interrupted = FALSE /\ loopExit = 0 /\ manualExit = 0
    /\ config \in { c \in Configs : c.manual_choose = <<>> /\ c.rarity = <<>> /\ c.speciality = <<>> }
    /\ \E res \in [PlaceSet -> UseScores], gr \in [PlaceSet -> Brightness], rd \in BOOLEAN :
          cv = [fn |-> "find_use_buttons_with_brightness_filter",
                readable |-> rd, result |-> res, gray |-> gr,
                shape |-> <<21, 41>>, screen |-> <<1920, 1080>>,
                threshold |-> 80, brightness_threshold |-> 0, todo |-> BrightnessThresholds,
                pc |-> 0, matches |-> <<>>, unique_coords |-> <<>>, returned |-> <<>>,
                returned_at |-> {}]

NextUseButtons ==
    \/ use_buttons_call
    \/ use_buttons_where
    \/ use_buttons_for
    \/ use_buttons_return

SpecUseButtons == InitUseButtons /\ [][NextUseButtons]_vars

(***************************************************************************)
(* Properties                                                              *)
(***************************************************************************)
\* the frame of run_automation_loop, when it is on the stack
InLoop == Len(stack) >= 2
Loop == stack[2]

\* a step in which the top frame returns to its caller
Returns == Running /\ Instr(Top).op = "return" /\ Len(stack') = Len(stack) - 1
               /\ ~interrupted'

\* a step in which a retrying search called by run_automation_loop gives up
PhaseExhausted ==
    /\ Len(stack) = 3 /\ Top.proc \in Retrying
    /\ Returns /\ Instr(Top).value = "False"

(* C1: a find_and_tap / find_and_tap_multi call with max_attempts = N > 0  *)
(* in which the template never matched has, when it returns, captured      *)
(* exactly N screenshots, waited exactly N - 1 times, one second each,     *)
(* tapped nothing, and returns False.                                      *)
C1_NeverMatching ==
    Running /\ Top.proc \in Retrying /\ Instr(Top).op = "return"
            /\ Top.coords = NoCoords /\ Top.args.max_attempts > 0
    => /\ Instr(Top).value = "False"
       /\ Top.nShot = Top.args.max_attempts
       /\ Top.nWait = Top.args.max_attempts - 1
       /\ Top.waited = 10 * (Top.args.max_attempts - 1)
       /\ Top.taps = <<>>

C1_Witness ==
    /\ Running /\ Top.proc = "find_and_tap" /\ Top.pc = 176
    /\ Top.args.max_attempts = 10 /\ Top.nShot = 10

(* C2 as claimed: whenever the retrying search of a phase of               *)
(* run_automation_loop gives up, the process keeps running and the next    *)
(* phase searched is Career.png of a new cycle.                            *)
C2_AlwaysRestarts ==
    [][PhaseExhausted => result' = "running" /\ Loop'.pc = 424]_vars

(* C2 as amended: the same, except that giving up on the 10-attempt search *)
(* of start_career_1.png leads to the 1-attempt check of start_career_1.png*)
(* (line 509), giving up on give_up_1.png leads to the next.png peek of    *)
(* the recovery loop (line 629), and giving up on menu.png inside the      *)
(* recovery loop leads to another search of give_up_1.png (line 625).      *)
C2_RestartsOrRecovers ==
    [][PhaseExhausted =>
         /\ result' = "running"
         /\ Loop'.pc = CASE Loop.pc = 481 -> 509
                         [] Loop.pc = 625 -> 629
                         [] Loop.pc = 648 -> 625
                         [] OTHER -> 424]_vars

\* give_up_2.png has just been given up
C2_Witness ==
    /\ Len(stack) = 3 /\ Top.proc = "find_and_tap" /\ Top.pc = 176
    /\ Loop.pc = 662

(* C3: without an interrupt run_automation_loop is left only at the break  *)
(* of line 472, with manual_choose enabled; it is at line 472 exactly      *)
(* after manual_choose_friend returned False, and is then left at once;    *)
(* and when the second 5-attempt search of following.png (after the        *)
(* filter sequence) gives up, manual_choose_friend returns False.          *)
C3_OnlyManualFailureExits ==
    /\ [](loopExit # 0 /\ ~interrupted => loopExit = 472 /\ manual_choose_enabled)
    /\ [][/\ (Len(stack) = 3 /\ Top.proc = "manual_choose_friend" /\ Returns)
               => (Loop'.pc = 472 <=> Instr(Top).value = "False")
          /\ (Len(stack) = 2 /\ Loop.pc = 472 /\ stack' # stack /\ ~interrupted')
               => (loopExit' = 472 /\ Len(stack') = 1 /\ result' = "running")
          /\ (Len(stack) = 4 /\ Top.proc = "find_and_tap_multi" /\ stack[3].pc = 292
                /\ Returns /\ Instr(Top).value = "False")
               => (stack'[3].pc = 297 /\ Instr(stack'[3]) = Return("False", {}))]_vars

\* the loop was left after following.png was not found after the filter
C3_Witness ==
    /\ loopExit = 472 /\ ~interrupted /\ result = "0"


\* a step in which the statement of the top frame raises an exception
Faults ==
    /\ Running /\ InLoop /\ interrupted' = interrupted
    /\ Instr(Top).op \in {"take_screenshot", "tap_coordinate"}
    /\ stack' # stack
    /\ ~(Len(stack') = Len(stack) /\ Top'.pc = Instr(Top).next)

InTpCharge == \E k \in 1..Len(stack) : stack[k].proc = "tp_charge"

\* the except Exception clause of run_automation_loop: one 10 s sleep, then
\* the Career.png search of a new cycle
CoolDown ==
    Len(stack) = 2 /\ stack' # stack /\ ~interrupted' =>
        /\ Loop.pc = 676 => Loop'.pc = 678
        /\ Loop.pc = 678 => Loop'.pc = 424 /\ Instr(Loop) = Wait(100, 424)
        /\ Loop.pc = 424 => Loop'.pc = 428
                            /\ Instr(Loop').args.template_name = "Career.png"

(* C4 as claimed: an exception raised by any statement inside a cycle,     *)
(* tp_charge included, is caught by the except clause of                   *)
(* run_automation_loop with no screenshot file left, one 10 s cool-down    *)
(* follows and then the Career.png search of a new cycle.                  *)
C4_TopLevelCatchesAll ==
    [][/\ Faults => Len(stack') = 2 /\ Loop'.pc = 676 /\ files' = {}
       /\ CoolDown]_vars

(* C4 as amended: the same for an exception raised outside tp_charge; one  *)
(* raised inside tp_charge (in its own statements or in a find_and_tap it  *)
(* calls) is caught by tp_charge's own except clause, which makes          *)
(* tp_charge return False: no cool-down, the cycle goes on at the          *)
(* 1-attempt start_career_1.png check, and no file captured inside         *)
(* tp_charge is left.                                                      *)
C4_CaughtWhereTheCodeCatches ==
    [][/\ Faults /\ ~InTpCharge => Len(stack') = 2 /\ Loop'.pc = 676 /\ files' = {}
       /\ Faults /\ InTpCharge =>
            /\ Len(stack') = 3 /\ Top'.proc = "tp_charge" /\ Top'.pc = 415
            /\ \A r \in files' : r.owner[1] = "run_automation_loop"
       /\ (Len(stack) = 3 /\ Top.proc = "tp_charge" /\ stack' # stack /\ ~interrupted') =>
            /\ Top.pc = 415 => Len(stack') = 3 /\ Top'.pc = 416
            /\ Top.pc = 416 => Len(stack') = 2 /\ Loop'.pc = 500
       /\ (Len(stack) = 2 /\ Loop.pc = 500 /\ stack' # stack /\ ~interrupted') =>
            Loop'.pc = 509 /\ files' = {}
       /\ CoolDown]_vars

\* the 10 s cool-down after an exception was caught by run_automation_loop
C4_Witness ==
    /\ Len(stack) = 2 /\ Loop.pc = 678 /\ files = {} /\ ~interrupted

(* C5 as claimed: find_and_tap and find_and_tap_multi never raise: they    *)
(* are left only by their return statements.                               *)
C5_NeverRaises ==
    [][(Running /\ Top.proc \in Retrying /\ interrupted' = interrupted
          /\ Len(stack') < Len(stack))
       => Instr(Top).op = "return"]_vars

(* C6 as claimed: a KeyboardInterrupt delivered at any point of            *)
(* run_automation_loop, the 10 s cool-down included, is caught by the      *)
(* loop's except KeyboardInterrupt clause, ends the loop there, and main   *)
(* returns 0.                                                              *)
C6_InterruptStopsCleanly ==
    interrupted =>
        IF InLoop THEN Loop.pc \in {673, 674}
        ELSE loopExit = 674 /\ result \in {"running", "0"}

(* C7 as claimed: when manual selection is enabled and following.png is    *)
(* matched neither before nor after the filter sequence                    *)
(* (manual_choose_friend returns False at line 297), main returns a value  *)
(* other than the 0 it returns after an interrupt.                         *)
C7_ManualFailureIsNonZero ==
    manual_choose_enabled /\ manualExit = 297 /\ result # "running" => result # "0"

\* the frame of run_filter_sequence, when it is on the stack
InFilter == Len(stack) >= 4 /\ stack[4].proc = "run_filter_sequence"
Filter == stack[4]

SameIgnoringCase(a, b) ==
    /\ Len(a) = Len(b)
    /\ \A k \in 1..Len(a) : a[k] = b[k] \/ UpperChar(a[k]) = b[k] \/ a[k] = UpperChar(b[k])

Configured(entry, default) == IF entry = <<>> THEN default ELSE entry[1]
ConfiguredRarity == Configured(config.rarity, <<"S","S","R">>)
ConfiguredSpeciality == Configured(config.speciality, <<"P","O","W","E","R">>)

KnownPair ==
    /\ \E r \in rarity_keys : SameIgnoringCase(r, ConfiguredRarity)
    /\ \E sp \in speciality_keys : SameIgnoringCase(sp, ConfiguredSpeciality)

\* the four taps the claim gives for a known pair
ExpectedFilterTaps ==
    LET r == CHOOSE r \in rarity_keys : SameIgnoringCase(r, ConfiguredRarity)
        sp == CHOOSE sp \in speciality_keys : SameIgnoringCase(sp, ConfiguredSpeciality)
    IN  << <<747, 1623>>, <<786, 203>>, rarity_coords(r), speciality_coords(sp) >>

(* C8: for a known (rarity, speciality) pair, compared ignoring case and   *)
(* defaulting to (SSR, POWER), run_filter_sequence taps (747,1623),        *)
(* (786,203), the rarity's coordinate, the speciality's coordinate in this *)
(* order and searches ok.png only after all four; for an unknown rarity or *)
(* speciality it returns False after the first two taps, taps no rarity or *)
(* speciality coordinate and never searches ok.png.                        *)
C8_FilterTaps ==
    InFilter =>
        IF KnownPair
        THEN /\ Filter.pc \notin {259, 262}
             /\ Filter.taps = SubSeq(ExpectedFilterTaps, 1,
                                  CASE Filter.pc = 235 -> 0
                                    [] Filter.pc \in {236, 238} -> 1
                                    [] Filter.pc \in {239, 257, 260, 263} -> 2
                                    [] Filter.pc \in {264, 265} -> 3
                                    [] OTHER -> 4)
             /\ Len(stack) > 4 => Filter.pc = 268 /\ Top.args.template_name = "ok.png"
        ELSE /\ Filter.pc \in {235, 236, 238, 239, 257, 259, 260, 262}
             /\ Len(Filter.taps) <= 2
             /\ Filter.taps = SubSeq(<< <<747, 1623>>, <<786, 203>> >>, 1, Len(Filter.taps))
             /\ Len(stack) = 4
             /\ Instr(Filter).op = "return" => Instr(Filter).value = "False"

\* ok.png is being searched after the taps for a lower-case "ssr" / "wit"
C8_Witness ==
    /\ InFilter /\ Len(stack) = 5 /\ Top.args.template_name = "ok.png"
    /\ config.rarity = << <<"s","s","r">> >>
    /\ config.speciality = << <<"w","i","t">> >>
    /\ Filter.taps = << <<747, 1623>>, <<786, 203>>, <<777, 410>>, <<442, 732>> >>

(* C9 as claimed: every screenshot file is owned by exactly one operation: *)
(* while an operation holds a path between its capture and its finally     *)
(* clause, the file exists and holds the frame that operation captured,    *)
(* and no other operation holds the same path.                             *)
C9_ExclusiveOwnership ==
    \A k \in 1..Len(stack) : \A v \in PathVars :
        stack[k][v] # None =>
            /\ \E r \in files : r.name = stack[k][v] /\ r.owner = <<stack[k].proc, v>>
            /\ \A j \in 1..Len(stack) : \A w \in PathVars :
                   <<j, w>> # <<k, v>> => stack[j][w] # stack[k][v]

(* C10 as claimed: no captured frame serves more than one matching pass.   *)
C10_OnePassPerFrame ==
    \A r \in files : r.uses <= 1

\* matching passes already run on the frame when the statement at pc matches
EarlierPasses(proc, pc) ==
    IF proc = "run_automation_loop" /\ pc = 567 THEN 1
    ELSE IF proc = "run_automation_loop" /\ pc = 573 THEN 2
    ELSE 0

(* C10 as amended: every match runs on a frame captured by the same        *)
(* attempt or peek, on which only the earlier matches of that attempt or   *)
(* peek have run: a frame is never carried over to another attempt or      *)
(* peek, but the check frame of step 12 serves up to three templates       *)
(* (skip_off, skip_on_1, skip_on_2) and the frame of a find_and_tap_multi  *)
(* attempt serves one pass per search root.                                *)
C10_FreshFramePerAttempt ==
    /\ Running /\ Instr(Top).op \in {"find_template", "find_template_multi", "find_use_buttons"}
         => \E r \in files :
               /\ r.name = Top[Instr(Top).var]
               /\ r.owner = <<Top.proc, Instr(Top).var>>
               /\ r.uses = EarlierPasses(Top.proc, Top.pc)
    /\ \A r \in files :
          r.uses <= CASE r.owner = <<"run_automation_loop", "screenshot_path_check">> -> 3
                      [] r.owner[1] = "find_and_tap_multi" -> 2
                      [] OTHER -> 1

\* the check frame of step 12 after its three matching passes
C10_Witness ==
    \E r \in files : r.owner = <<"run_automation_loop", "screenshot_path_check">>
                     /\ r.uses = 3

\* the statements of an attempt between its capture and its finally clause
InAttempt(self) ==
    \/ self.proc = "find_and_tap" /\ self.pc \in 159..172
    \/ self.proc = "find_and_tap_multi" /\ self.pc \in 215..226

(* C11 as claimed: in find_and_tap and find_and_tap_multi the screenshot   *)
(* file of an attempt no longer exists when the tap is issued, nor during  *)
(* the post-success wait or the 1 s wait between attempts.                 *)
C11_ReleasedBeforeTapAndWaits ==
    Running /\ Top.proc \in Retrying /\ Instr(Top).op \in {"tap_coordinate", "wait"}
        => ~exists(files, Top.screenshot_path)

(* C11 as amended: the screenshot file of an attempt is released at the    *)
(* end of the attempt: it exists from the capture up to the finally clause *)
(* (so also when the tap is issued and during both waits), and a file      *)
(* captured by find_and_tap / find_and_tap_multi exists at no other time:  *)
(* not at the next attempt's capture, not after the function has returned  *)
(* or an exception has left it.                                            *)
C11_ReleasedAtEndOfAttempt ==
    /\ Running /\ InAttempt(Top)
         => \E r \in files : r.name = Top.screenshot_path
                             /\ r.owner = <<Top.proc, "screenshot_path">>
    /\ \A r \in files : r.owner[1] \in Retrying
         => Running /\ Top.proc = r.owner[1] /\ InAttempt(Top)
                    /\ r.name = Top.screenshot_path

\* the post-success wait of next.png, the screenshot of the attempt still there
C11_Witness ==
    /\ Running /\ Top.proc = "find_and_tap" /\ Top.pc = 163
    /\ Top.taps # <<>> /\ exists(files, Top.screenshot_path)

\* a step in which the function called by run_automation_loop returns to it
ReturnsToLoop(proc) == Len(stack) = 3 /\ Top.proc = proc /\ Returns

\* a step of run_automation_loop itself
LoopSteps ==
    /\ Running /\ Len(stack) = 2 /\ ~interrupted'
    /\ Len(stack') < 2 \/ Loop'.pc # Loop.pc

C13_LoopsBackAfterTpCharge ==
    [][/\ ReturnsToLoop("tp_charge") /\ Instr(Top).value = "True"
            => Loop'.pc = 497 /\ result' = "running"
       /\ LoopSteps /\ Loop.pc = 497
            => /\ Loop'.pc = 481 /\ Loop'.screenshot_path = None
               /\ Instr(Loop') = CallFindAndTap("start_career_1.png", 10, 0, 485, 509)
       /\ ReturnsToLoop("find_and_tap") /\ Loop.pc = 481 /\ Instr(Top).value = "True"
            => Loop'.pc = 485 /\ Instr(Loop').op = "wait" /\ Instr(Loop').next = 489
       /\ LoopSteps /\ Loop.pc = 489 /\ Loop'.pc # 676
            => /\ Loop'.pc = 491 /\ Loop'.taps = <<>>
               /\ Instr(Loop) = Shot("screenshot_path", 491)
               /\ Instr(Loop') = Match("restore.png", "screenshot_path", "", 494, 503)
       /\ LoopSteps /\ Loop.pc = 491
            => Loop'.pc \in {494, 503} /\ Loop'.taps = <<>>
               /\ (Loop'.pc = 494 => Instr(Loop').proc = "tp_charge")
       /\ InLoop /\ InLoop' /\ Loop'.pc = 515 /\ Loop.pc # 515 => Loop.pc = 509]_vars

\* the 10-attempt search made after a successful tp_charge has found the button
C13_Witness ==
    /\ Running /\ Len(stack) = 3 /\ Loop.pc = 481 /\ Loop.from = 497
    /\ Top.proc = "find_and_tap" /\ Top.pc = 164 /\ Top.args.max_attempts = 10

\* run_automation_loop stands in step 12 (lines 544 - 584)
InStep12 == Running /\ Len(stack) = 2 /\ Loop.pc \in 544..584

(* C14 as claimed: when step 12 ends (the finally clause of line 584) the  *)
(* sequencer has issued at most two taps in the step.                      *)
C14_AtMostTwoTaps ==
    InStep12 /\ Loop.pc = 584 => Len(Loop.taps) <= 2

(* C14 as amended: step 12 issues no tap when skip_off.png is not found;   *)
(* when it is found, two taps on it, and then, by the re-check, two more   *)
(* taps when skip_off.png is found again, one more when skip_on_1.png is   *)
(* found, none for skip_on_2.png or nothing: 0, 2, 3 or 4 taps in total.   *)
(* Every branch goes forward to the confirm.png phase: no statement of the *)
(* step leads back into the step.                                          *)
C14_TapsOfStep12 ==
    /\ [](InStep12 /\ Loop.pc = 579 =>
            /\ Len(Loop.taps) = CASE Loop.from = 564 -> 4
                                  [] Loop.from = 570 -> 3
                                  [] OTHER -> 2
            /\ Loop.taps[1] = Loop.taps[2]
            /\ Len(Loop.taps) = 4 => Loop.taps[3] = Loop.taps[4])
    /\ [](InStep12 /\ Loop.pc = 584 =>
            /\ Len(Loop.taps) \in {0, 2, 3, 4}
            /\ Len(Loop.taps) = 0 <=> Loop.from = 546)
    /\ [][/\ InStep12 /\ LoopSteps /\ Loop'.pc # 676
               => IF Loop.pc = 584
                  THEN /\ Loop'.pc = 589
                       /\ Instr(Loop').args.template_name = "confirm.png"
                  ELSE Loop'.pc \in (Loop.pc + 1)..584]_vars

\* step 12 ends after four taps
C14_Witness ==
    InStep12 /\ Loop.pc = 584 /\ Len(Loop.taps) = 4

(* C15 as claimed: in the recovery loop a failed give_up_1.png search is   *)
(* followed by one peek for next.png (five taps when found) and then the   *)
(* menu.png search; give_up_1.png is searched again only after that        *)
(* menu.png search succeeded, and a failed menu.png search restarts the    *)
(* cycle at Career.png.                                                    *)
C15_MenuFailureRestartsCycle ==
    [][/\ ReturnsToLoop("find_and_tap") /\ Loop.pc = 625 /\ Instr(Top).value = "False"
            => Loop'.pc = 629 /\ Instr(Loop').op = "take_screenshot"
       /\ LoopSteps /\ Loop.pc = 640
            => Loop'.pc = 648 /\ Len(Loop.taps) \in {0, 5}
               /\ Instr(Loop').args.template_name = "menu.png"
       /\ ReturnsToLoop("find_and_tap") /\ Loop.pc = 648
            => Loop'.pc = IF Instr(Top).value = "True" THEN 625 ELSE 424]_vars

\* directories 1..n whose template file exists, in listed order
ExistingUpTo(n) ==
    SelectSeq([k \in 1..n |-> k], LAMBDA k : cv.templates[k].file # "missing")

\* directories whose template is matched at or above threshold t
MatchingDirs(t) ==
    { k \in 1..Len(cv.templates) :
        /\ cv.screenshot /\ cv.templates[k].file = "ok"
        /\ cv.templates[k].max_val >= t }

FirstDir(S) == CHOOSE k \in S : \A j \in S : k <= j

(* C16: find_template_multi consults the primary directory first and then  *)
(* the extra directories in listed order, and stops at the first directory *)
(* whose template is matched at or above the threshold: it returns the     *)
(* centre of that directory's match, has read the existing template files  *)
(* up to that directory in order and none after it; a missing or           *)
(* undecodable template is passed over; when no directory matches it       *)
(* returns None after going through all of them.                           *)
C16_FirstMatchingRoot ==
    cv.fn = "find_template_multi" =>
        \A r \in cv.returned :
            LET M == MatchingDirs(r.threshold) IN
            IF M = {}
            THEN r.coords = NoCoords /\ r.reads = ExistingUpTo(Len(cv.templates))
            ELSE LET k == FirstDir(M)
                     t == cv.templates[k]
                 IN  /\ r.coords = << t.max_loc[1] + t.shape[2] \div 2,
                                      t.max_loc[2] + t.shape[1] \div 2 >>
                     /\ r.reads = ExistingUpTo(k)

\* the template of the primary directory is missing, that of the first extra
\* directory is matched, the second extra directory holds one that would match
C16_Witness ==
    /\ cv.fn = "find_template_multi" /\ Len(cv.templates) = 3 /\ cv.screenshot
    /\ cv.templates[1].file = "missing"
    /\ cv.templates[2].file = "ok" /\ cv.templates[3].file = "ok"
    /\ cv.templates[2].max_loc # cv.templates[3].max_loc
    /\ \E r \in cv.returned :
          3 \in MatchingDirs(r.threshold) /\ r.reads = <<2>>
          /\ r.coords = <<cv.templates[2].max_loc[1] + 20, cv.templates[2].max_loc[2] + 10>>

(* C18 as claimed: with the same screenshot and template files, a match    *)
(* returned by find_template or find_template_multi at threshold t2 is     *)
(* returned with the same coordinates at every threshold t1 < t2.          *)
C18_SameMatchAtLowerThreshold ==
    Matching =>
        \A r1, r2 \in cv.returned :
            r1.threshold < r2.threshold /\ r2.coords # NoCoords
                => r1.coords = r2.coords

(* C18 as amended: this holds of find_template.  For find_template_multi,  *)
(* a match at t2 implies a match at every t1 < t2, found in the same       *)
(* directory or in one consulted earlier: with the same coordinates when   *)
(* it is the same directory, with that earlier directory's coordinates     *)
(* otherwise.                                                              *)
C18_MatchAtLowerThreshold ==
    Matching =>
        \A r1, r2 \in cv.returned :
            r1.threshold < r2.threshold /\ r2.coords # NoCoords
                => /\ r1.coords # NoCoords
                   /\ r1.reads = SubSeq(r2.reads, 1, Len(r1.reads))
                   /\ Len(r1.reads) = Len(r2.reads) => r1.coords = r2.coords
                   /\ Len(r1.reads) < Len(r2.reads) =>
                         r1.coords = center(cv.templates[r1.reads[Len(r1.reads)]])
                   /\ cv.fn = "find_template" => r1.coords = r2.coords

\* both thresholds have been run and the higher one has matched
C18_Witness ==
    /\ cv.fn = "find_template_multi"
    /\ \E r1, r2 \in cv.returned :
          /\ r1.threshold < r2.threshold /\ r2.coords # NoCoords
          /\ r1.coords # r2.coords

\* the centres of the places that pass the score and the brightness test,
\* in scan order
PassingCenters ==
    IF ~cv.readable THEN <<>>
    ELSE LET ps == SelectSeq(Places, LAMBDA p : cv.result[p] >= 80 /\ cv.gray[p] > 170)
         IN  [k \in 1..Len(ps) |-> <<ps[k][1] + 20, ps[k][2] + 10>>]

\* closer than the cluster radius (the function's test: distance < 50)
InRadius(a, b) ==
    (a[1] - b[1]) * (a[1] - b[1]) + (a[2] - b[2]) * (a[2] - b[2]) < 2500

(* C17: in the list find_use_buttons_with_brightness_filter returns no two *)
(* coordinates are closer than the 50 px cluster radius; every match that  *)
(* passes the score and brightness tests is closer than the radius to (or  *)
(* is) a returned coordinate; and the returned coordinates are passing     *)
(* matches in scan order, each the first-encountered of its cluster: a     *)
(* passing match is left out only when a coordinate returned before it in  *)
(* scan order is closer than the radius.                                   *)
C17_OnePerCluster ==
    UseButtonsRun /\ cv.returned # <<>> =>
        LET R == cv.returned[1]
            P == PassingCenters
        IN  /\ \A i, j \in 1..Len(R) : i # j => ~InRadius(R[i], R[j])
            /\ \A k \in 1..Len(P) : \E i \in 1..Len(R) : InRadius(P[k], R[i])
            /\ \E f \in [1..Len(R) -> 1..Len(P)] :
                  /\ \A i \in 1..Len(R) : R[i] = P[f[i]]
                  /\ \A i, j \in 1..Len(R) : i < j => f[i] < f[j]
                  /\ \A k \in 1..Len(P) :
                        (\A i \in 1..Len(R) : f[i] # k)
                            => \E i \in 1..Len(R) : f[i] < k /\ InRadius(P[k], R[i])

\* two matches 30 px apart are represented by the first; one exactly 50 px
\* from it is kept, and the one 20 px from that is left out
C17_Witness ==
    /\ UseButtonsRun /\ cv.returned # <<>>
    /\ PassingCenters = << <<20, 10>>, <<50, 10>>, <<50, 50>>, <<70, 50>> >>
    /\ cv.returned[1] = << <<20, 10>>, <<50, 50>> >>

\* the tap of this call was rejected by the device or timed out
TapFailed(self) == self.proc \in Retrying /\ self.delivery \in {"rejected", "timeout"}

(* C19: when the template matched and the tap was rejected by the device   *)
(* or timed out, find_and_tap (and find_and_tap_multi) goes on as after a  *)
(* delivered tap: no exception leaves it, it waits wait_after when that is *)
(* positive, returns True, and its caller goes on with what follows a      *)
(* successful search.                                                      *)
C19_FailedTapIsNonFatal ==
    /\ [](Running /\ TapFailed(Top) =>
            /\ Top.pc \in {162, 163, 164, 218, 219, 220}
            /\ Len(Top.taps) = 1
            /\ Instr(Top).op = "return" =>
                  /\ Instr(Top).value = "True"
                  /\ Top.waited = Top.args.wait_after + 10 * Top.attempt)
    /\ [][Running /\ TapFailed(Top) /\ ~interrupted' =>
            \/ Len(stack') = Len(stack) /\ TapFailed(Top')
            \/ /\ Returns /\ Instr(Top).value = "True"
               /\ Top'.pc = Instr(stack[Len(stack) - 1]).next]_vars

\* the post-success wait after a tap on next.png that timed out
C19_Witness ==
    /\ Running /\ Top.proc = "find_and_tap" /\ Top.delivery = "timeout"
    /\ Top.pc = 164 /\ Top.args.wait_after = 10 /\ Top.waited >= 10

\* the frame of manual_choose_friend, when it is on the stack
InManual == Len(stack) >= 3 /\ stack[3].proc = "manual_choose_friend"
Manual == stack[3]

\* the coordinates run_filter_sequence taps
FilterCoordinates ==
    { <<747, 1623>>, <<786, 203>> }
    \cup { rarity_coords(r) : r \in rarity_keys }
    \cup { speciality_coords(sp) : sp \in speciality_keys }

SelectionTemplates == {"plus.png", "following.png"}

(* C20: a tap of the filter sequence is issued only by run_filter_sequence *)
(* called from manual_choose_friend with manual_choose enabled, after      *)
(* plus.png was found and tapped and the 5-attempt search of following.png *)
(* at threshold 0.7 gave up; the second search of following.png starts     *)
(* only after run_filter_sequence returned True; and with manual_choose    *)
(* false or absent there is no search of plus.png or following.png and no  *)
(* filter tap.                                                             *)
C20_FilterOnlyAfterDirectSearchFailed ==
    /\ [](Running =>
            /\ \A k \in 1..Len(stack) :
                  /\ (\E n \in 1..Len(stack[k].taps) : stack[k].taps[n] \in FilterCoordinates)
                        => stack[k].proc = "run_filter_sequence"
                  /\ stack[k].proc = "run_filter_sequence"
                        => k = 4 /\ InManual /\ Manual.pc = 288
                  /\ stack[k].proc = "manual_choose_friend"
                        => k = 3 /\ manual_choose_enabled /\ Loop.pc = 470
                  /\ stack[k].args.template_name \in SelectionTemplates
                        => k = 4 /\ InManual /\ stack[k].proc = "find_and_tap_multi"
            /\ ~manual_choose_enabled => ~InManual /\ ~InFilter)
    /\ [][Running /\ InManual /\ Len(stack') >= 3 /\ ~interrupted'
            /\ Manual'.pc # Manual.pc =>
            /\ Len(stack) = 4 /\ Returns
            /\ Manual'.pc = 283 =>
                  /\ Manual.pc = 279 /\ Top.args.template_name = "plus.png"
                  /\ Instr(Top).value = "True" /\ Len(Top.taps) = 1
            /\ Manual'.pc = 288 =>
                  /\ Manual.pc = 283
                  /\ Top.args = Args("following.png", 5, 2, 70)
                  /\ Instr(Top).value = "False" /\ Top.nShot = 5 /\ Top.taps = <<>>
            /\ Manual'.pc = 292 =>
                  /\ Manual.pc = 288 /\ Top.proc = "run_filter_sequence"
                  /\ Instr(Top).value = "True" /\ Len(Top.taps) = 4
                  /\ Instr(Manual') = CallFindAndTapMulti("following.png", 5, 2, 70, 294, 297)]_vars

\* the second search of following.png, after the filter sequence
C20_Witness ==
    /\ Running /\ InManual /\ Manual.pc = 292 /\ Len(stack) = 4
    /\ Top.args.template_name = "following.png" /\ Top.nShot > 0

(* C21: find_template returns a coordinate exactly when the template file  *)
(* exists, the screenshot and the template decode, the matcher does not    *)
(* raise and the best score is at or above the threshold; the coordinate   *)
(* is the best location plus (width div 2, height div 2), not the location *)
(* itself; in every other case it returns None, and every call returns.    *)
C21_CentroidIffMatch ==
    cv.fn = "find_template" =>
        /\ cv.pc = 0 => { r.threshold : r \in cv.returned } = Thresholds \ cv.todo
        /\ \A r \in cv.returned :
              LET t == cv.templates[1]
                  found == /\ t.file \notin {"missing", "undecodable", "raises"}
                           /\ cv.screenshot
                           /\ t.max_val >= r.threshold
              IN  /\ r.coords # NoCoords <=> found
                  /\ found => /\ r.coords[1] = t.max_loc[1] + (t.shape[2] \div 2)
                              /\ r.coords[2] = t.max_loc[2] + (t.shape[1] \div 2)
                              /\ r.coords # t.max_loc

\* a template of 41 x 21 matched at (10, 20) with a score equal to the threshold
C21_Witness ==
    /\ cv.fn = "find_template" /\ cv.templates[1].file = "ok"
    /\ cv.templates[1].max_val = 80 /\ cv.templates[1].max_loc = <<10, 20>>
    /\ \E r \in cv.returned : r.threshold = 80 /\ r.coords = <<30, 30>>

\* the conditions under which the process cannot do its work
Unrecoverable ==
    {"config missing", "config invalid", "adb missing", "adb timeout", "unreachable"}

(* C22 as claimed: when the configuration file is missing or not JSON,     *)
(* when adb is absent or adb connect times out, and when the output of adb *)
(* connect does not report the device connected, run_automation_loop is    *)
(* never entered and main returns a non-zero code.                         *)
C22_StartupFailureIsNonZero ==
    cv.fn = "startup" /\ cv.outcome \in Unrecoverable =>
        /\ ~InLoop /\ loopExit = 0
        /\ result \in {"running", "1"}

\* the specified pipeline, stage by stage, on the centroids in scan order
MatchAll ==
    IF ~cv.readable THEN <<>>
    ELSE LET ps == SelectSeq(Places, LAMBDA p : cv.result[p] >= 80)
         IN  [k \in 1..Len(ps) |-> <<ps[k][1] + 20, ps[k][2] + 10>>]

LuminanceAt(c) == cv.gray[<<c[1] - 20, c[2] - 10>>]

FilterByBrightness(cs) == SelectSeq(cs, LAMBDA c : LuminanceAt(c) > 170)

RECURSIVE DedupeInto(_, _)
DedupeInto(kept, cs) ==
    IF cs = <<>> THEN kept
    ELSE DedupeInto(IF \E k \in 1..Len(kept) : InRadius(Head(cs), kept[k])
                    THEN kept ELSE Append(kept, Head(cs)),
                    Tail(cs))

Dedupe(cs) == DedupeInto(<<>>, cs)

(* C23 as claimed: find_use_buttons_with_brightness_filter returns the     *)
(* list of the pipeline: all matches with score >= 0.8, deduplicated by    *)
(* the 50 px radius keeping the first of each cluster, then only those     *)
(* whose centroid luminance is above the brightness threshold.             *)
C23_DedupeThenBrightness ==
    UseButtonsRun /\ cv.returned # <<>> =>
        cv.returned[1] = FilterByBrightness(Dedupe(MatchAll))

(* C23 as amended: it returns the list of the pipeline with the last two   *)
(* stages in the other order: all matches with score >= 0.8, only those    *)
(* whose centroid luminance is above the brightness threshold, then        *)
(* deduplicated by the 50 px radius keeping the first of each cluster.     *)
C23_BrightnessThenDedupe ==
    UseButtonsRun /\ cv.returned # <<>> =>
        cv.returned[1] = Dedupe(FilterByBrightness(MatchAll))

\* a dark match 30 px before a bright one: the bright one is returned
C23_Witness ==
    /\ UseButtonsRun /\ cv.returned # <<>>
    /\ MatchAll = << <<20, 10>>, <<50, 10>> >>
    /\ LuminanceAt(<<20, 10>>) = 170 /\ LuminanceAt(<<50, 10>>) = 171
    /\ cv.returned[1] = << <<50, 10>> >>

\* the coordinates of a returned list
Coordinates(cs) == { cs[k] : k \in 1..Len(cs) }

(* C24 as claimed: every coordinate returned has a centroid luminance      *)
(* strictly above brightness_threshold, and with the same frame every      *)
(* coordinate returned at a threshold b2 is returned at every b1 < b2.     *)
C24_SubsetAtLowerBrightness ==
    UseButtonsRun =>
        /\ \A r \in cv.returned_at : \A c \in Coordinates(r.coords) :
              LuminanceAt(c) > r.brightness_threshold
        /\ \A r1, r2 \in cv.returned_at :
              r1.brightness_threshold < r2.brightness_threshold
                  => Coordinates(r2.coords) \subseteq Coordinates(r1.coords)

(* C24 as amended: every coordinate returned has a centroid luminance      *)
(* strictly above brightness_threshold, and with the same frame every      *)
(* coordinate returned at b2 is, at every b1 < b2, returned or closer than *)
(* the 50 px radius to a returned coordinate that comes before it in scan  *)
(* order.                                                                  *)
C24_RepresentedAtLowerBrightness ==
    UseButtonsRun =>
        /\ \A r \in cv.returned_at : \A c \in Coordinates(r.coords) :
              LuminanceAt(c) > r.brightness_threshold
        /\ \A r1, r2 \in cv.returned_at :
              r1.brightness_threshold < r2.brightness_threshold
                  => \A c \in Coordinates(r2.coords) :
                        \/ c \in Coordinates(r1.coords)
                        \/ \E d \in Coordinates(r1.coords) :
                              /\ InRadius(c, d)
                              /\ d[2] < c[2] \/ (d[2] = c[2] /\ d[1] < c[1])

\* a match at luminance 171 kept at threshold 170 and one at 170 dropped; at
\* threshold 169 the one at 170, 30 px before it, is returned in its place
C24_Witness ==
    /\ UseButtonsRun
    /\ MatchAll = << <<20, 10>>, <<50, 10>> >>
    /\ LuminanceAt(<<20, 10>>) = 170 /\ LuminanceAt(<<50, 10>>) = 171
    /\ [brightness_threshold |-> 170, coords |-> << <<50, 10>> >>] \in cv.returned_at
    /\ [brightness_threshold |-> 169, coords |-> << <<20, 10>> >>] \in cv.returned_at

(***************************************************************************)
(* C25: tp_charge carries out its steps in the fixed order restore.png,    *)
(* tap of the first use.png candidate, max.png, ok.png, close.png; it      *)
(* returns True only after all five, and once a step has failed (template  *)
(* not found, or no candidate) it returns False without another capture or *)
(* tap, the capture of step 2 deleted.                                     *)
(***************************************************************************)
TpOrder == <<"restore.png", "tap", "max.png", "ok.png", "close.png">>

IsPrefix(s, t) == Len(s) <= Len(t) /\ SubSeq(t, 1, Len(s)) = s

\* the frame of tp_charge, called by run_automation_loop
Tp == stack[3]
TpOnStack == Len(stack) >= 3 /\ Tp.proc = "tp_charge"

\* a step of tp_charge has just failed: its find_and_tap returns False, or
\* find_use_buttons_with_brightness_filter returns the empty list
TpStepFails ==
    /\ Running /\ TpOnStack /\ Len(stack') >= 3
    /\ \/ Len(stack) = 4 /\ Returns /\ Instr(Top).value = "False"
       \/ /\ Len(stack) = 3 /\ Instr(Top).op = "find_use_buttons"
          /\ stack'[3].pc = Instr(Top).else

C25_StepsInFixedOrder ==
    /\ [](TpOnStack =>
             /\ IsPrefix(Tp.done, TpOrder)
             /\ Len(Tp.taps) <= 1 /\ Tp.nShot <= 1
             /\ Tp.nShot = 1 => Len(Tp.done) >= 1
             /\ Len(Tp.taps) = 1 <=> Len(Tp.done) >= 2
             /\ Tp.pc = 412 => Tp.done = TpOrder)
    /\ [][/\ Running /\ Len(stack) = 3 /\ TpOnStack /\ Instr(Top).op = "tap_coordinate"
               /\ Len(stack') = 3 /\ stack'[3].pc = Instr(Top).next
             => /\ Tp.coords # NoCoords /\ Tp.pc = 384 /\ Tp.done = <<"restore.png">>
                /\ stack'[3].taps = <<Tp.coords>>
                /\ exists(files, Tp.screenshot_path)
          /\ ReturnsToLoop("tp_charge")
             => /\ Instr(Top).value = "True" => Top.done = TpOrder /\ Top.pc = 412
                /\ Instr(Top).value = "False" => Top.done # TpOrder
                /\ \A r \in files' : r.owner[1] # "tp_charge"
          /\ TpStepFails
             => /\ Instr(stack'[3]).op = "return" /\ Instr(stack'[3]).value = "False"
                /\ stack'[3].done = Tp.done
                /\ Tp.screenshot_path # None
                      => "screenshot_path" \in Instr(stack'[3]).cleanup
          /\ Len(stack) = 3 /\ TpOnStack /\ Instr(Top).op = "return"
               /\ Len(stack') >= 3
             => stack'[3] = Tp]_vars

\* tp_charge about to return False because max.png was not found, after the
\* restore.png and use.png taps, its capture deleted
C25_Witness ==
    /\ Len(stack) = 3 /\ TpOnStack /\ Tp.pc = 395
    /\ Tp.done = <<"restore.png", "tap">> /\ Tp.nShot = 1 /\ Len(Tp.taps) = 1
    /\ \A r \in files : r.owner[1] # "tp_charge"

(***************************************************************************)
(* C26: a successful tap of start_career_1.png followed by a peek that     *)
(* finds no restore.png suffices to go on to start_career_2.png: when the  *)
(* local loop was left that way, the cycle goes on with the                *)
(* start_career_2.png search whether or not start_career_1.png is still on *)
(* screen.                                                                 *)
(***************************************************************************)
C26_TapAndPeekSuffice ==
    [][ReturnsToLoop("find_and_tap") /\ Loop.pc = 509 /\ Loop.from = 503
          => Loop'.pc = 515]_vars

(***************************************************************************)
(* C27: when every device command returns and nothing is raised, a cycle   *)
(* that was started eventually reaches a cycle boundary (Career.png search *)
(* of a new cycle, or the end of the loop).  Checked under SpecFair, where *)
(* the program always takes its next step and no take_screenshot or        *)
(* tap_coordinate fails and no KeyboardInterrupt arrives.                  *)
(***************************************************************************)
\* the steps of the program when nothing is raised
NextFair ==
    \/ ForStmt
    \/ IfStmt
    \/ LogStmt
    \/ take_screenshot
    \/ find_template
    \/ find_template_multi
    \/ find_use_buttons_with_brightness_filter
    \/ tap_coordinate
    \/ wait
    \/ FinallyStmt
    \/ CallStmt
    \/ ReturnStmt
    \/ construct
    \/ Tick

\* config.json with the filter keys left at their defaults
InitFair ==
    /\ Start /\ cv = Idle
    /\ config \in { c \in Configs : c.rarity = <<>> /\ c.speciality = <<>> }

\* the single thread runs on: a statement that can be executed is executed
SpecFair ==
    /\ InitFair
    /\ [][NextFair]_vars
    /\ WF_vars(ForStmt) /\ WF_vars(IfStmt) /\ WF_vars(LogStmt)
    /\ WF_vars(take_screenshot) /\ WF_vars(find_template)
    /\ WF_vars(find_template_multi)
    /\ WF_vars(find_use_buttons_with_brightness_filter)
    /\ WF_vars(tap_coordinate) /\ WF_vars(wait) /\ WF_vars(FinallyStmt)
    /\ WF_vars(CallStmt) /\ WF_vars(ReturnStmt) /\ WF_vars(construct)

\* the first statement of the `while True` of line 422, or the loop is over
CycleBoundary == ~InLoop \/ (Len(stack) = 2 /\ Loop.pc = 424)

CycleStarted == Len(stack) = 2 /\ Loop.pc = 428

C27_CycleEnds == CycleStarted ~> CycleBoundary

(***************************************************************************)
(* C27, amended: a cycle that never reaches a boundary goes again and      *)
(* again through the `continue` of the local loop of steps 6 - 6.5 (line   *)
(* 497, tp_charge succeeded) or through a failed give_up_1.png search      *)
(* (line 629); every other part of the cycle ends.                         *)
(***************************************************************************)
\* run_automation_loop about to go round one of its two nested loops
BackEdge == Len(stack) = 2 /\ Loop.pc \in {497, 629}

C27_OnlyNestedLoopsRepeat == []<>(CycleBoundary \/ BackEdge)

\* the loop of step 16 has gone round: give_up_1.png is searched again after
\* the menu.png search of line 648
C27_Witness == Len(stack) = 2 /\ Loop.pc = 625 /\ Loop.from = 648

(***************************************************************************)
(* C28: within a cycle the guarded phases are passed in the fixed order    *)
(* Career, next, next, auto_select_1, ok, next, start_career_1,            *)
(* start_career_2, skip, skip_btn, confirm, menu, give_up_1, give_up_2: a  *)
(* phase's template is searched only when every earlier phase has tapped   *)
(* in this cycle; give_up_2.png is tapped only after give_up_1.png, and    *)
(* the end-of-cycle wait comes only after give_up_2.png was tapped.        *)
(***************************************************************************)
PhaseOrder ==
    <<"Career.png", "next.png", "next.png", "auto_select_1.png", "ok.png", "next.png",
      "start_career_1.png", "start_career_2.png", "skip.png", "skip_btn.png",
      "confirm.png", "menu.png", "give_up_1.png", "give_up_2.png">>

\* run_automation_loop inside its try block
InCycle == InLoop /\ Loop.pc \in 424..670

\* run_automation_loop about to search the template of a phase
Searches == Len(stack) = 2 /\ InCycle /\ Instr(Loop).op = "call"
               /\ Instr(Loop).proc = "find_and_tap"

C28_PhasesInFixedOrder ==
    /\ [](InCycle => IsPrefix(Loop.done, PhaseOrder))
    /\ [](Searches =>
            LET t == Instr(Loop).args.template_name
                n == Len(Loop.done)
            IN  \/ n < Len(PhaseOrder) /\ PhaseOrder[n + 1] = t
                \/ /\ Loop.pc \in {481, 509, 648}
                   /\ n >= 1 /\ Loop.done[n] = t)
    /\ [](InCycle /\ Loop.pc = 668 => Loop.done = PhaseOrder)
    /\ [][ReturnsToLoop("find_and_tap") /\ Instr(Top).value = "True"
            /\ Top.args.template_name = "give_up_2.png"
          => /\ Loop.done[Len(Loop.done)] = "give_up_1.png"
             /\ Loop'.pc = 668]_vars

\* the end-of-cycle wait of a cycle in which all fourteen phases tapped
C28_Witness ==
    /\ Len(stack) = 2 /\ Loop.pc = 668 /\ Loop.done = PhaseOrder

(***************************************************************************)
(* C29: a call of find_and_tap or find_and_tap_multi issues at most one    *)
(* tap, in an attempt whose match succeeded and at the coordinates that    *)
(* match returned; after the tap it only waits (when wait_after > 0) and   *)
(* returns True, without another capture; and it never captures more than  *)
(* max_attempts frames.                                                    *)
(***************************************************************************)
\* the statements of find_and_tap / find_and_tap_multi after the tap
AfterTap == {162, 163, 164, 218, 219, 220}

C29_OneTapAtMatch ==
    /\ [](Running /\ Top.proc \in Retrying =>
            /\ Len(Top.taps) <= 1
            /\ Top.nShot <= Top.args.max_attempts
            /\ Top.taps # <<>> <=> Top.pc \in AfterTap
            /\ Top.taps # <<>> =>
                  /\ Top.coords \in MatchCoords /\ Top.taps = <<Top.coords>>
                  /\ Top.nShot = Top.attempt + 1
                  /\ Top.waited \in {10 * Top.attempt,
                                     10 * Top.attempt + Top.args.wait_after}
            /\ Instr(Top).op = "return" =>
                  (Instr(Top).value = "True" <=> Len(Top.taps) = 1))
    /\ [][Running /\ Top.proc \in Retrying /\ ~interrupted'
            /\ Len(stack') = Len(stack) /\ Top'.pc # Top.pc
          => /\ Instr(Top).op \in {"find_template", "find_template_multi"}
                  => /\ Top'.coords # NoCoords <=> Top'.pc = Instr(Top).next
                     /\ Top'.pc = Instr(Top).next
                           => Instr(Top').op = "tap_coordinate"
                              /\ Instr(Top').at = Top'.coords
             /\ Instr(Top).op = "tap_coordinate"
                  => /\ Top'.taps = <<Top.coords>> /\ Top'.coords = Top.coords
                     /\ exists(files, Top.screenshot_path)
             /\ Top.pc \in AfterTap
                  => /\ Top'.pc \in AfterTap /\ Top'.pc > Top.pc
                     /\ Top'.nShot = Top.nShot /\ Top'.taps = Top.taps
                     /\ Instr(Top).op = "wait" => Instr(Top).tenths = Top.args.wait_after]_vars

\* find_and_tap_multi about to return True after a tap in its second or a
\* later attempt
C29_Witness ==
    /\ Running /\ Top.proc = "find_and_tap_multi" /\ Top.pc = 220
    /\ Top.attempt >= 1 /\ Top.nShot = Top.attempt + 1
    /\ Top.taps = <<Top.coords>>
====
